---- MODULE Spec2Model ----
(***************************************************************************)
(* Model of the Telegram compatibility pipeline of tgtools:                *)
(* make_tg_compatible and the Document, Image, Video and Gif policies      *)
(* (src/tgtools/telegram/compatibility).  Descriptors live on a heap of    *)
(* objects, because the policies replace self.file by a new object on      *)
(* download and update the object in place on re-encode.  One action is    *)
(* one run of synchronous code between two awaits.  A second               *)
(* specification, PostSpec, reads the tag properties of a booru post       *)
(* (src/tgtools/models/booru).                                             *)
(***************************************************************************)
EXTENDS Integers, Sequences, FiniteSets, TLC

\* ------------------------------------------------------------------ constants
MAX_SIZE_URL == 20000000
MAX_SIZE_UPLOAD == 50000000
MAX_IMAGE_RATIO == 20
Image_MAX_SIZE_UPLOAD == 10000000
Image_MAX_SIZE_URL == 5000000
MAX_IMAGE_SIZE_SUM == 10000

\* -------------------------------------------------------------------- bounds
\* policy runs one task makes in a row: make_tg_compatible on the input, then
\* the Document policy again on the descriptor it returned
MaxCalls == 2
\* chunks the chunked download yields before the stream ends
MaxChunks == 2
\* words in the tag_string of a post
MaxTags == 2

\* -------------------------------------------------------------- input domains
Tasks == {1, 2}
\* the tasks that run under Spec
MainTasks == {1}

VIDEO_TYPES == {"mp4", "mkv", "webm"}
GIF_TYPES == {"gif"}
IMAGE_TYPES == {"jpeg", "jpg", "png", "webp"}
Exts == VIDEO_TYPES \cup GIF_TYPES \cup IMAGE_TYPES \cup {"", "txt"}

\* declared sizes, on both sides of each ceiling
Sizes == {Image_MAX_SIZE_URL, Image_MAX_SIZE_URL + 1,
          Image_MAX_SIZE_UPLOAD, Image_MAX_SIZE_UPLOAD + 1,
          MAX_SIZE_URL, MAX_SIZE_URL + 1,
          MAX_SIZE_UPLOAD, MAX_SIZE_UPLOAD + 1}
\* byte counts an encoder (PIL save, ffmpeg, frame JPEG) can produce
EncodedSizes == {Image_MAX_SIZE_UPLOAD, MAX_SIZE_UPLOAD + 1}
\* declared <<width, height>>; <<-1, -1>> is the default of Summary, and
\* <<9500, 476>> has a ratio just below MAX_IMAGE_RATIO
DeclaredDims == {<<-1, -1>>, <<0, 100>>, <<100, 100>>, <<9500, 476>>,
                 <<2000, 10>>, <<1, 20000>>, <<20000, 20000>>}
\* <<width, height>> of the picture the bytes really hold
RealDims == {<<100, 100>>, <<20000, 20000>>}
NoDims == <<0, 0>>

\* ------------------------------------------------------------------ file name
\* a pathlib.Path name as its stem and its suffix without the dot
Name(stem, suffix) == [stem |-> stem, suffix |-> suffix]
\* Summary.file_ext: file_name.suffix[1:]
file_ext(f) == f.name.suffix
\* Path.with_suffix(".x")
with_suffix(n, s) == [n EXCEPT !.suffix = s]
\* Path.with_stem(s): the stem is replaced, the suffix is kept
with_stem(n, s) == [n EXCEPT !.stem = s]

\* Summary.is_image
is_image(f) == file_ext(f) \in {"jpg", "jpeg", "png", "webp"}

\* (mutant) webm is classified as an animation
telegram_type_WebmAnimation(f) ==
  LET ext == file_ext(f) IN
  IF ext \in GIF_TYPES \cup {"webm"} THEN "Animation"
  ELSE IF ext \in VIDEO_TYPES THEN "Video"
  ELSE IF ext \in IMAGE_TYPES THEN "PhotoSize"
  ELSE "Document"

\* FileExtMixin.telegram_type
telegram_type(f) ==
  LET ext == file_ext(f) IN
  IF ext \in VIDEO_TYPES THEN "Video"
  ELSE IF ext \in GIF_TYPES THEN "Animation"
  ELSE IF ext \in IMAGE_TYPES THEN "PhotoSize"
  ELSE "Document"

\* make_tg_compatible: the policy class chosen for a telegram type
PolicyOf(type) ==
  CASE type = "PhotoSize" -> "Image"
    [] type = "Video" -> "Video"
    [] type = "Animation" -> "Gif"
    [] OTHER -> "Document"

\* ----------------------------------------------------------------- descriptors
\* cls "URL" is URLFileSummary (Remote), cls "File" is FileSummary
\* (Materialized).  data names the bytes the object holds, real the
\* dimensions of the picture in them.
URLFileSummary(ext, size, dims, iter) ==
  [cls |-> "URL", name |-> Name("1", ext), size |-> size,
   width |-> dims[1], height |-> dims[2], hasIter |-> iter,
   data |-> "remote", real |-> NoDims]
FileSummary(name, size, width, height, data, real) ==
  [cls |-> "File", name |-> name, size |-> size,
   width |-> width, height |-> height, hasIter |-> FALSE,
   data |-> data, real |-> real]

\* (mutant) the descriptor the download returns is still a URLFileSummary
url_to_file_summary_KeepsClass(f, real) == f

\* MediaCompatibility.url_to_file_summary: every field but the url and the
\* download methods is carried over, file is the downloaded content
url_to_file_summary(f, real) ==
  IF f.cls = "File" THEN f
  ELSE FileSummary(f.name, f.size, f.width, f.height, "orig", real)

\* the pictures a download or an input file can hold
ContentsOf(f) ==
  IF is_image(f)
    THEN RealDims \cup (IF f.width > 0 /\ f.height > 0 THEN {<<f.width, f.height>>} ELSE {})
    ELSE {NoDims}

InputFiles ==
  {URLFileSummary(e, s, d, i) : e \in Exts, s \in Sizes, d \in DeclaredDims, i \in BOOLEAN}
  \cup
  UNION {{FileSummary(Name("1", e), s, d[1], d[2], "orig", r) :
            r \in ContentsOf(URLFileSummary(e, s, d, FALSE))} :
            e \in Exts, s \in Sizes, d \in DeclaredDims}

\* ----------------------------------------------------------------- booru posts
\* RATING.full_name_map, for the one-letter ratings the boorus deliver
full_name_map ==
  ("g" :> "rating:general") @@ ("s" :> "rating:sensitive") @@
  ("q" :> "rating:questionable") @@ ("e" :> "rating:explicit")

\* RATING.full
RATING_full(rating) == full_name_map[rating]

\* the words a tag_string is made of
TagWords == {"1girl", "solo", "rating:general"}
\* the rating of a post; "" is a post without rating (None or "")
Ratings == {""} \cup DOMAIN full_name_map

\* a post: tag_string as the sequence of its whitespace-separated words, and
\* the property last read from it with the value the read gave
Post(words, rating) ==
  [tag_string |-> words, rating |-> rating, read |-> "none", value |-> {}]
NoPost == Post(<<>>, "")
Posts ==
  {Post(w, r) : w \in UNION {[1..n -> TagWords] : n \in 0..MaxTags}, r \in Ratings}

\* CommonPostInfo.tags: set(self.tag_string.split())
tags(p) == {p.tag_string[i] : i \in DOMAIN p.tag_string}

\* rating_full and tags_rating in one:
\* {self.rating_full} if self.rating_full else set(), with rating_full
\* RATING.full(self.rating) if self.rating else None
tags_rating(p) == IF p.rating # "" THEN {RATING_full(p.rating)} ELSE {}

\* BooruPost.tags_with_rating: return self.tags & self.tags_rating
tags_with_rating(p) == tags(p) \cap tags_rating(p)

\* ------------------------------------------------------------------- variables
VARIABLES
  heap,   \* sequence of descriptor objects; an object reference is an index
  task,   \* per task: position and locals of its make_tg_compatible call
  post    \* the booru post whose properties are read

vars == <<heap, task, post>>

None == 0

IdleTask ==
  [pc |-> "idle", via |-> "make_tg_compatible", policy |-> "none", arg |-> None, self |-> None,
   force |-> FALSE, input |-> None, summary |-> None,
   image |-> NoDims, shrunk |-> NoDims, max_size |-> <<0, 0>>,
   conversion |-> "none",
   downloads |-> 0, chunks |-> 0, iters |-> 0,
   frame |-> "none", transcode |-> "none",
   dl |-> [on |-> None, cls |-> "none", fetches |-> 0, ret |-> None],
   ret |-> None, tag |-> "none", exc |-> "none", calls |-> 0,
   first |-> None]

Init ==
  /\ \E f \in InputFiles : heap = <<f>>
  /\ task = [t \in Tasks |-> IdleTask]
  /\ post = NoPost

\* the object self.file of task t refers to
File(t) == heap[task[t].self]

\* labels at which a task is suspended in an await on I/O
Suspended == {"idle", "done", "raised", "doc_dl",
              "img_dl_measure", "img_dl_force", "img_dl_doc", "img_dl_proc",
              "vid_dl", "vid_ffmpeg", "vid_chunk", "gif_dl", "gif_ffmpeg"}

\* asyncio runs one task at a time and switches only at an await
CanRun(t) == \A u \in Tasks \ {t} : task[u].pc \in Suspended

\* (mutant) the content is fetched whatever the class of the descriptor
download_AlwaysFetches(r, f, label) ==
  [r EXCEPT !.pc = label, !.downloads = r.downloads + 1,
            !.dl = [on |-> r.self, cls |-> f.cls, fetches |-> 1, ret |-> None]]

\* MediaCompatibility.download called on self.file f: for a URLFileSummary
\* download_method is awaited, at <label>; a FileSummary is returned as it
\* is, without an await.  dl records the last call: the object it was
\* called on, its class, the fetches it made and the object it returned.
download(r, f, label) ==
  IF f.cls = "URL"
    THEN [r EXCEPT !.pc = label, !.downloads = r.downloads + 1,
                   !.dl = [on |-> r.self, cls |-> "URL", fetches |-> 1, ret |-> None]]
    ELSE [r EXCEPT !.dl = [on |-> r.self, cls |-> "File", fetches |-> 0, ret |-> r.self]]

\* (mutant) self.file keeps referring to the object download was called on
DownloadReturns_KeepsSelf(r, new) == [r EXCEPT !.dl.ret = new]

\* self.file = await self.download(): the call returns the new object
DownloadReturns(r, new) == [r EXCEPT !.self = new, !.dl.ret = new]

\* return <file>, <tag>
Return(t, r, file, tag) == [r EXCEPT !.pc = "done", !.ret = file, !.tag = tag]

\* ------------------------------------------------------------ make_tg_compatible
EntryOf(policy) ==
  CASE policy = "Image" -> "img"
    [] policy = "Video" -> "doc"
    [] policy = "Gif" -> "gif"
    [] OTHER -> "doc"

\* a policy object is constructed for <file> and make_compatible starts
Start(t, file, policy, force) ==
  [IdleTask EXCEPT !.pc = EntryOf(policy), !.policy = policy,
     !.arg = file, !.self = file, !.force = force,
     !.input = heap[file], !.calls = task[t].calls + 1,
     !.first = IF task[t].pc = "idle" THEN None
               ELSE [arg |-> task[t].arg, ret |-> task[t].ret, tag |-> task[t].tag,
                     downloads |-> task[t].downloads,
                     input |-> task[t].input]]

\* make_tg_compatible(file, force_download) on the input descriptor
Call(t) ==
  /\ CanRun(t)
  /\ UNCHANGED post
  /\ task[t].pc = "idle"
  /\ \E force \in BOOLEAN :
       task' = [task EXCEPT ![t] =
                  Start(t, 1, PolicyOf(telegram_type(heap[1])), force)]
  /\ UNCHANGED heap

\* GifCompatibility(file).make_compatible(force_download) on a webm that is
\* to be sent as an animation
CallGif(t) ==
  /\ CanRun(t)
  /\ UNCHANGED post
  /\ task[t].pc = "idle"
  /\ file_ext(heap[1]) = "webm"
  /\ \E force \in BOOLEAN :
       task' = [task EXCEPT ![t] =
                  [Start(t, 1, "Gif", force) EXCEPT !.via = "GifCompatibility"]]
  /\ UNCHANGED heap

\* DocumentCompatibility(file).make_compatible(force_download) on the
\* descriptor a run of the Document policy returned
CallAgain(t) ==
  /\ CanRun(t)
  /\ UNCHANGED post
  /\ task[t].pc = "done"
  /\ task[t].policy = "Document"
  /\ task[t].ret # None
  /\ task[t].calls < MaxCalls
  /\ \E force \in BOOLEAN :
       task' = [task EXCEPT ![t] =
         [Start(t, task[t].ret, "Document", force) EXCEPT !.via = "DocumentCompatibility"]]
  /\ UNCHANGED heap

\* ---------------------------------------------------------------- Document
\* The Document policy the Video and Gif policies inherit: the size test and
\* the download condition of DocumentCompatibility.make_compatible
\* (boorutools/telegram/compatibility/document.py, the version that calls
\* MediaCompatibility.download), with the Document tag the tgtools version
\* returns.
\* (mutant) the Video policy returns what the Document policy returned,
\* without the still-frame fallback
AfterDocument_NoFallback(t, r, file) ==
  CASE r.policy = "Document" -> Return(t, r, file, "Document")
    [] r.policy = "Gif" -> Return(t, r, file, "Video")
    [] OTHER -> IF file = None THEN Return(t, r, None, "None")
                ELSE [r EXCEPT !.summary = file, !.pc = "vid_conv"]

\* what follows DocumentCompatibility.make_compatible returning (file, _):
\* the policy's own return, or the rest of the subclass that called super()
AfterDocument(t, r, file) ==
  CASE r.policy = "Document" -> Return(t, r, file, "Document")
    [] r.policy = "Gif" -> Return(t, r, file, "Video")
    [] OTHER -> [r EXCEPT !.summary = file,
                          !.pc = IF file = None THEN "vid_frame" ELSE "vid_conv"]

\* (mutant) the size is checked for a FileSummary only
DocumentTooLarge_FileOnly(f) == f.cls = "File" /\ f.size > MAX_SIZE_UPLOAD

\* (mutant) a size equal to the ceiling is rejected
DocumentTooLarge_Inclusive(f) == f.size >= MAX_SIZE_UPLOAD

\* if self.file.size > self.MAX_SIZE_UPLOAD: return None, Document
DocumentTooLarge(f) == f.size > MAX_SIZE_UPLOAD

\* (mutant) force_download is ignored
DocumentNeedsDownload_NoForce(f, force) == f.cls = "URL" /\ f.size > MAX_SIZE_URL

\* isinstance(self.file, URLFileSummary) and
\* (self.file.size > self.MAX_SIZE_URL or force_download)
DocumentNeedsDownload(f, force) ==
  f.cls = "URL" /\ (f.size > MAX_SIZE_URL \/ force)

\* DocumentCompatibility.make_compatible up to its await of the download
DocumentMakeCompatible(t) ==
  /\ CanRun(t)
  /\ UNCHANGED post
  /\ task[t].pc = "doc"
  /\ LET r == task[t] IN
       IF DocumentTooLarge(File(t))
         THEN task' = [task EXCEPT ![t] = AfterDocument(t, r, None)]
       ELSE IF DocumentNeedsDownload(File(t), r.force)
         THEN task' = [task EXCEPT ![t] =
                IF File(t).cls = "URL"
                  THEN download(r, File(t), "doc_dl")
                  ELSE AfterDocument(t, download(r, File(t), "doc_dl"), r.self)]
       ELSE task' = [task EXCEPT ![t] = AfterDocument(t, r, r.self)]
  /\ UNCHANGED heap

\* MediaCompatibility.download completes: self.file becomes a new FileSummary
DocumentDownloaded(t) ==
  /\ CanRun(t)
  /\ UNCHANGED post
  /\ task[t].pc = "doc_dl"
  /\ \E real \in ContentsOf(File(t)) :
       /\ heap' = Append(heap, url_to_file_summary(File(t), real))
       /\ task' = [task EXCEPT ![t] =
            AfterDocument(t, DownloadReturns(task[t], Len(heap) + 1), Len(heap) + 1)]

\* ------------------------------------------------------------------- Image
\* raise <exception> out of make_compatible
Raise(t, r, exception) == [r EXCEPT !.pc = "raised", !.exc = exception]

\* ImageCompatibility.resolution_too_heigh
resolution_too_heigh(f) == f.width + f.height > MAX_IMAGE_SIZE_SUM

\* Summary.ratio_hw and ratio_wh are float divisions: they raise
\* ZeroDivisionError on a zero divisor.  ratio_too_drastic evaluates
\* ratio_hw first and ratio_wh only when ratio_hw < MAX_IMAGE_RATIO.
RatioRaises(f) == f.width = 0 \/ f.height = 0

\* x / y >= n for y # 0, in integers
QuotientAtLeast(x, y, n) == IF y > 0 THEN x >= n * y ELSE x <= n * y

\* (mutant) only ratio_hw is compared
ratio_too_drastic_HwOnly(f) ==
  QuotientAtLeast(f.height, f.width, MAX_IMAGE_RATIO)

\* ImageCompatibility.ratio_too_drastic (defined when no divisor is zero)
ratio_too_drastic(f) ==
  \/ QuotientAtLeast(f.height, f.width, MAX_IMAGE_RATIO)
  \/ QuotientAtLeast(f.width, f.height, MAX_IMAGE_RATIO)

\* (mutant) a size equal to a ceiling is too big
file_size_too_big_Inclusive(f, max_size) ==
  IF max_size[1] # 0 \/ max_size[2] # 0
    THEN f.size >= max_size[1] \/ (f.cls = "URL" /\ f.size >= max_size[2])
    ELSE f.size >= Image_MAX_SIZE_UPLOAD \/ (f.cls = "URL" /\ f.size >= Image_MAX_SIZE_URL)

\* ImageCompatibility.file_size_too_big; max_size (0, 0) selects the
\* ceilings of the class
file_size_too_big(f, max_size) ==
  IF max_size[1] # 0 \/ max_size[2] # 0
    THEN f.size > max_size[1] \/ (f.cls = "URL" /\ f.size > max_size[2])
    ELSE f.size > Image_MAX_SIZE_UPLOAD \/ (f.cls = "URL" /\ f.size > Image_MAX_SIZE_URL)

\* ImageCompatibility.is_webp
is_webp(f) == file_ext(f) = "webp"

\* ImageCompatibility.needs_processing (defined when no divisor is zero)
needs_processing(f) ==
  \/ resolution_too_heigh(f)
  \/ ratio_too_drastic(f)
  \/ file_size_too_big(f, <<0, 0>>)
  \/ is_webp(f)

\* (mutant) the format argument is ignored, the file keeps its extension
save_file_KeepsFormat(f, dims, format, nbytes) ==
  [f EXCEPT !.size = nbytes,
            !.width = dims[1], !.height = dims[2],
            !.data = "saved", !.real = dims]

\* ImageCompatibility.save_file: the image of dimensions dims is encoded to
\* nbytes bytes and the descriptor is updated in place
save_file(f, dims, format, nbytes) ==
  LET fmt0 == IF format # "" THEN format ELSE file_ext(f)
      fmt == IF fmt0 = "jpg" THEN "jpeg" ELSE fmt0
  IN [f EXCEPT !.name = IF fmt # "" THEN with_suffix(f.name, fmt) ELSE f.name,
               !.size = nbytes,
               !.width = dims[1], !.height = dims[2],
               !.data = "saved", !.real = dims]

\* ImageCompatibility._recalculate_size
recalculate_size(f) == [f EXCEPT !.width = f.real[1], !.height = f.real[2]]

\* the size reduce_resolution asks Image.resize for: int() truncates the
\* float product; 0.9 normally, MAX_IMAGE_SIZE_SUM / sum(image.size) when
\* the descriptor's resolution is too high
ResizeTo(f, image) ==
  IF resolution_too_heigh(f)
    THEN <<(image[1] * MAX_IMAGE_SIZE_SUM) \div (image[1] + image[2]),
           (image[2] * MAX_IMAGE_SIZE_SUM) \div (image[1] + image[2])>>
    ELSE <<(image[1] * 9) \div 10, (image[2] * 9) \div 10>>

\* PIL's Image.resize raises ValueError("height and width must be > 0")
ResizeRaises(dims) == dims[1] < 1 \/ dims[2] < 1

\* ImageCompatibility.make_compatible, first statement: unknown dimensions
ImageStart(t) ==
  /\ CanRun(t)
  /\ UNCHANGED post
  /\ task[t].pc = "img"
  /\ LET r == task[t] IN
       IF File(t).cls = "URL" /\ File(t).height <= 0 /\ File(t).width <= 0
         THEN task' = [task EXCEPT ![t] = download(r, File(t), "img_dl_measure")]
         ELSE task' = [task EXCEPT ![t] = [r EXCEPT !.pc = "img_force"]]
  /\ UNCHANGED heap

\* the download completes and the dimensions are measured from the bytes
ImageMeasured(t) ==
  /\ CanRun(t)
  /\ UNCHANGED post
  /\ task[t].pc = "img_dl_measure"
  /\ \E real \in ContentsOf(File(t)) :
       heap' = Append(heap, recalculate_size(url_to_file_summary(File(t), real)))
  /\ task' = [task EXCEPT ![t] =
       [DownloadReturns(task[t], Len(heap) + 1) EXCEPT !.pc = "img_force"]]

\* (mutant) force_download does not make the Image policy download
ImageForce_Skips(t) ==
  /\ CanRun(t)
  /\ UNCHANGED post
  /\ task[t].pc = "img_force"
  /\ task' = [task EXCEPT ![t] = [task[t] EXCEPT !.pc = "img_ratio"]]
  /\ UNCHANGED heap

\* if force_download and isinstance(self.file, URLFileSummary)
ImageForce(t) ==
  /\ CanRun(t)
  /\ UNCHANGED post
  /\ task[t].pc = "img_force"
  /\ LET r == task[t] IN
       IF r.force /\ File(t).cls = "URL"
         THEN task' = [task EXCEPT ![t] = download(r, File(t), "img_dl_force")]
         ELSE task' = [task EXCEPT ![t] = [r EXCEPT !.pc = "img_ratio"]]
  /\ UNCHANGED heap

\* a download of the Image policy completes; the policy goes on at <next>
ImageDownloadDone(t, label, next) ==
  /\ CanRun(t)
  /\ UNCHANGED post
  /\ task[t].pc = label
  /\ \E real \in ContentsOf(File(t)) :
       heap' = Append(heap, url_to_file_summary(File(t), real))
  /\ task' = [task EXCEPT ![t] =
       [DownloadReturns(task[t], Len(heap) + 1) EXCEPT !.pc = next]]

ImageForceDownloaded(t) == ImageDownloadDone(t, "img_dl_force", "img_ratio")

\* the branch on ratio_too_drastic and on needs_processing
ImageDecide(t) ==
  /\ CanRun(t)
  /\ UNCHANGED post
  /\ task[t].pc = "img_ratio"
  /\ LET r == task[t]
         f == File(t)
         document_size == <<MAX_SIZE_UPLOAD, MAX_SIZE_URL>>
     IN
       IF RatioRaises(f)
         THEN task' = [task EXCEPT ![t] = Raise(t, r, "ZeroDivisionError")]
       ELSE IF ratio_too_drastic(f)
         THEN IF file_size_too_big(f, document_size)
                \* self.file = await self.download(), whatever the class
                THEN IF f.cls = "URL"
                       THEN task' = [task EXCEPT ![t] =
                              [download(r, f, "img_dl_doc") EXCEPT
                                 !.max_size = document_size]]
                       ELSE task' = [task EXCEPT ![t] =
                              [download(r, f, "img_dl_doc") EXCEPT
                                 !.pc = "img_shrink", !.max_size = document_size,
                                 !.image = f.real, !.shrunk = f.real]]
                ELSE task' = [task EXCEPT ![t] = Return(t, r, r.self, "Document")]
       ELSE IF needs_processing(f) /\ f.cls = "URL"
         THEN task' = [task EXCEPT ![t] = download(r, f, "img_dl_proc")]
       ELSE IF ~needs_processing(f)
         THEN task' = [task EXCEPT ![t] = Return(t, r, r.self, "PhotoSize")]
       ELSE task' = [task EXCEPT ![t] = [r EXCEPT !.pc = "img_open"]]
  /\ UNCHANGED heap

\* the download of the extreme-ratio branch completes; Image.open
ImageDocDownloaded(t) ==
  /\ CanRun(t)
  /\ UNCHANGED post
  /\ task[t].pc = "img_dl_doc"
  /\ \E real \in ContentsOf(File(t)) :
       /\ heap' = Append(heap, url_to_file_summary(File(t), real))
       /\ task' = [task EXCEPT ![t] =
            [DownloadReturns(task[t], Len(heap) + 1) EXCEPT
               !.pc = "img_shrink", !.image = real, !.shrunk = real]]

ImageProcDownloaded(t) == ImageDownloadDone(t, "img_dl_proc", "img_open")

\* with Image.open(self.file.file) as image; convert_to_jpeg when webp
ImageOpen(t) ==
  /\ CanRun(t)
  /\ UNCHANGED post
  /\ task[t].pc = "img_open"
  /\ LET f == File(t) IN
       /\ IF is_webp(f)
            THEN \E nbytes \in EncodedSizes :
                   heap' = [heap EXCEPT ![task[t].self] = save_file(f, f.real, "jpeg", nbytes)]
            ELSE UNCHANGED heap
       /\ task' = [task EXCEPT ![t] =
            [task[t] EXCEPT !.pc = "img_shrink", !.max_size = <<0, 0>>,
                            !.image = f.real, !.shrunk = f.real]]

\* one evaluation of the while of decrease_file_size: an iteration
\* (reduce_resolution) or the exit of the loop
ImageShrink(t) ==
  /\ CanRun(t)
  /\ UNCHANGED post
  /\ task[t].pc = "img_shrink"
  /\ LET r == task[t]
         f == File(t)
         size == ResizeTo(f, r.shrunk)
     IN
       IF file_size_too_big(f, r.max_size)
         THEN IF ResizeRaises(size)
                THEN /\ task' = [task EXCEPT ![t] = Raise(t, r, "ValueError")]
                     /\ UNCHANGED heap
                ELSE /\ \E nbytes \in EncodedSizes :
                          heap' = [heap EXCEPT ![r.self] = save_file(f, size, "", nbytes)]
                     /\ task' = [task EXCEPT ![t] =
                          [r EXCEPT !.shrunk = size, !.iters = r.iters + 1]]
       ELSE IF r.max_size # <<0, 0>>
         THEN /\ task' = [task EXCEPT ![t] = Return(t, r, r.self, "Document")]
              /\ UNCHANGED heap
         ELSE /\ task' = [task EXCEPT ![t] = [r EXCEPT !.pc = "img_final"]]
              /\ UNCHANGED heap

\* if self.resolution_too_heigh(): self.reduce_resolution(image); return
ImageFinal(t) ==
  /\ CanRun(t)
  /\ UNCHANGED post
  /\ task[t].pc = "img_final"
  /\ LET r == task[t]
         f == File(t)
         size == ResizeTo(f, r.image)
     IN
       IF resolution_too_heigh(f)
         THEN IF ResizeRaises(size)
                THEN /\ task' = [task EXCEPT ![t] = Raise(t, r, "ValueError")]
                     /\ UNCHANGED heap
                ELSE /\ \E nbytes \in EncodedSizes :
                          heap' = [heap EXCEPT ![r.self] = save_file(f, size, "", nbytes)]
                     /\ task' = [task EXCEPT ![t] =
                          Return(t, [r EXCEPT !.iters = r.iters + 1], r.self, "PhotoSize")]
         ELSE /\ task' = [task EXCEPT ![t] = Return(t, r, r.self, "PhotoSize")]
              /\ UNCHANGED heap

\* ------------------------------------------------------------------- Video
\* `case "mp4", "mkv":` in VideoCompatibility.make_compatible is a sequence
\* pattern of two elements.  A str subject is never matched by a sequence
\* pattern (PEP 634), so the pattern matches only a two-element sequence.
SequencePatternMatches(subject, pattern) ==
  /\ subject \in Seq(Exts)
  /\ subject = pattern

\* the match statement: the coroutine that is awaited as conversion
ConversionFor(ext) ==
  IF SequencePatternMatches(ext, <<"mp4", "mkv">>) THEN "make_streamable" ELSE "to_mp4"

\* _run_ffmpeg: the stdout of the ffmpeg process, 0 bytes when it failed
FfmpegOutputs == {0} \cup EncodedSizes

\* the in-place update of self.file after a conversion of the Video policy
VideoConvertedFile(f, nbytes) ==
  [f EXCEPT !.data = "converted", !.size = nbytes,
            !.name = with_suffix(f.name, "mp4")]

\* VideoCompatibility.make_compatible after super().make_compatible returned
\* a summary: download for conversion, then the match on the extension
VideoAfterDocument(t) ==
  /\ CanRun(t)
  /\ UNCHANGED post
  /\ task[t].pc = "vid_conv"
  /\ LET r == task[t]
         f == File(t)
     IN
       IF file_ext(f) # "mp4" /\ f.cls = "URL"
         THEN task' = [task EXCEPT ![t] = download(r, f, "vid_dl")]
       ELSE IF f.cls = "File"
         THEN task' = [task EXCEPT ![t] =
                [r EXCEPT !.pc = "vid_ffmpeg", !.conversion = ConversionFor(file_ext(f))]]
       ELSE task' = [task EXCEPT ![t] = Return(t, r, r.summary, "Video")]
  /\ UNCHANGED heap

\* the download for conversion completes; self.file is now a FileSummary
VideoDownloaded(t) ==
  /\ CanRun(t)
  /\ UNCHANGED post
  /\ task[t].pc = "vid_dl"
  /\ \E real \in ContentsOf(File(t)) :
       heap' = Append(heap, url_to_file_summary(File(t), real))
  /\ task' = [task EXCEPT ![t] =
       [DownloadReturns(task[t], Len(heap) + 1) EXCEPT
          !.pc = "vid_ffmpeg", !.conversion = ConversionFor(file_ext(File(t)))]]

\* if converted := await conversion: ...; return summary, Video
VideoConverted(t) ==
  /\ CanRun(t)
  /\ UNCHANGED post
  /\ task[t].pc = "vid_ffmpeg"
  /\ \E nbytes \in FfmpegOutputs :
       /\ heap' = IF nbytes # 0
                    THEN [heap EXCEPT ![task[t].self] = VideoConvertedFile(File(t), nbytes)]
                    ELSE heap
       /\ task' = [task EXCEPT ![t] =
            Return(t, [task[t] EXCEPT !.transcode = IF nbytes # 0 THEN "ok" ELSE "empty"],
                   task[t].summary, "Video")]

\* _get_first_frame_summary: the FileSummary built around the frame
FirstFrameSummary(f, nbytes) ==
  FileSummary(with_stem(f.name, ".jpeg"), nbytes, f.width, f.height, "frame", NoDims)

\* _extract_first_image: a JPEG of nbytes bytes, or IndexError when the
\* buffer holds no decodable frame
ExtractOutcomes ==
  {[frame |-> FALSE, nbytes |-> 0]} \cup {[frame |-> TRUE, nbytes |-> n] : n \in EncodedSizes}

\* the elif of make_compatible: _get_first_frame_summary up to its first await
VideoFirstFrame(t) ==
  /\ CanRun(t)
  /\ UNCHANGED post
  /\ task[t].pc = "vid_frame"
  /\ LET r == task[t]
         f == File(t)
     IN
       IF f.cls = "URL"
         THEN /\ UNCHANGED heap
              /\ IF f.hasIter
                   THEN task' = [task EXCEPT ![t] = [r EXCEPT !.pc = "vid_chunk"]]
                   \* NotImplementedError is caught: return None, None
                   ELSE task' = [task EXCEPT ![t] =
                          Return(t, [r EXCEPT !.frame = "failed"], None, "None")]
         ELSE \E out \in ExtractOutcomes :
                IF ~out.frame
                  THEN /\ task' = [task EXCEPT ![t] =
                            Raise(t, [r EXCEPT !.frame = "failed"], "IndexError")]
                       /\ UNCHANGED heap
                  ELSE /\ heap' = Append(heap, FirstFrameSummary(f, out.nbytes))
                       /\ task' = [task EXCEPT ![t] =
                            Return(t, [r EXCEPT !.frame = "extracted"],
                                   Len(heap) + 1, "PhotoSize")]

\* (mutant) the loop does not return at the first frame: it keeps the frame
\* and asks for the next chunk
VideoChunk_ReadsOn(t) ==
  /\ CanRun(t)
  /\ UNCHANGED post
  /\ task[t].pc = "vid_chunk"
  /\ LET r == task[t]
         f == File(t)
     IN
       \/ /\ r.chunks < MaxChunks
          /\ \E out \in ExtractOutcomes :
               /\ task' = [task EXCEPT ![t] =
                    [r EXCEPT !.chunks = r.chunks + 1,
                              !.frame = IF out.frame THEN "extracted" ELSE r.frame]]
               /\ UNCHANGED heap
       \/ /\ IF r.frame = "extracted"
               THEN /\ heap' = Append(heap, FirstFrameSummary(f, MAX_SIZE_UPLOAD + 1))
                    /\ task' = [task EXCEPT ![t] = Return(t, r, Len(heap) + 1, "PhotoSize")]
               ELSE /\ task' = [task EXCEPT ![t] =
                         Return(t, [r EXCEPT !.frame = "failed"], None, "None")]
                    /\ UNCHANGED heap

\* one step of `async for buffer in self.file.iter_download_method()`:
\* the next cumulative buffer arrives and extraction is tried on it, or the
\* stream has ended (ValueError, caught: return None, None)
VideoChunk(t) ==
  /\ CanRun(t)
  /\ UNCHANGED post
  /\ task[t].pc = "vid_chunk"
  /\ LET r == task[t]
         f == File(t)
     IN
       \/ /\ r.chunks < MaxChunks
          /\ \E out \in ExtractOutcomes :
               IF ~out.frame
                 THEN /\ task' = [task EXCEPT ![t] = [r EXCEPT !.chunks = r.chunks + 1]]
                      /\ UNCHANGED heap
                 ELSE /\ heap' = Append(heap, FirstFrameSummary(f, out.nbytes))
                      /\ task' = [task EXCEPT ![t] =
                           Return(t, [r EXCEPT !.chunks = r.chunks + 1,
                                               !.frame = "extracted"],
                                  Len(heap) + 1, "PhotoSize")]
       \/ /\ task' = [task EXCEPT ![t] =
               Return(t, [r EXCEPT !.frame = "failed"], None, "None")]
          /\ UNCHANGED heap

\* --------------------------------------------------------------------- Gif
\* GifCompatibility.make_compatible up to its first await
GifStart(t) ==
  /\ CanRun(t)
  /\ UNCHANGED post
  /\ task[t].pc = "gif"
  /\ LET r == task[t]
         f == File(t)
     IN
       IF file_ext(f) = "webm"
         THEN IF f.cls = "URL"
                THEN task' = [task EXCEPT ![t] = download(r, f, "gif_dl")]
                ELSE task' = [task EXCEPT ![t] = [r EXCEPT !.pc = "gif_ffmpeg"]]
         ELSE task' = [task EXCEPT ![t] = [r EXCEPT !.pc = "doc"]]
  /\ UNCHANGED heap

\* the download of the webm completes
GifDownloaded(t) ==
  /\ CanRun(t)
  /\ UNCHANGED post
  /\ task[t].pc = "gif_dl"
  /\ \E real \in ContentsOf(File(t)) :
       heap' = Append(heap, url_to_file_summary(File(t), real))
  /\ task' = [task EXCEPT ![t] =
       [DownloadReturns(task[t], Len(heap) + 1) EXCEPT !.pc = "gif_ffmpeg"]]

\* if converted := await self.webm_to_mp4(...): update in place, else
\* return None, Video
GifConverted(t) ==
  /\ CanRun(t)
  /\ UNCHANGED post
  /\ task[t].pc = "gif_ffmpeg"
  /\ \E nbytes \in FfmpegOutputs :
       IF nbytes # 0
         THEN /\ heap' = [heap EXCEPT ![task[t].self] =
                   [File(t) EXCEPT !.data = "converted", !.size = nbytes]]
              /\ task' = [task EXCEPT ![t] =
                   [task[t] EXCEPT !.pc = "doc", !.transcode = "ok"]]
         ELSE /\ task' = [task EXCEPT ![t] =
                   Return(t, [task[t] EXCEPT !.transcode = "empty"], None, "Video")]
              /\ UNCHANGED heap

Step(t) ==
  \/ Call(t)
  \/ CallGif(t)
  \/ CallAgain(t)
  \/ DocumentMakeCompatible(t)
  \/ DocumentDownloaded(t)
  \/ ImageStart(t)
  \/ ImageMeasured(t)
  \/ ImageForce(t)
  \/ ImageForceDownloaded(t)
  \/ ImageDecide(t)
  \/ ImageDocDownloaded(t)
  \/ ImageProcDownloaded(t)
  \/ ImageOpen(t)
  \/ ImageShrink(t)
  \/ ImageFinal(t)
  \/ VideoAfterDocument(t)
  \/ VideoDownloaded(t)
  \/ VideoConverted(t)
  \/ VideoFirstFrame(t)
  \/ VideoChunk(t)
  \/ GifStart(t)
  \/ GifDownloaded(t)
  \/ GifConverted(t)

Next == \E t \in MainTasks : Step(t)

Spec == Init /\ [][Next]_vars

\* ------------------------------------------- two calls on one descriptor object
\* the descriptors given to two concurrent calls: the object a post caches
\* in _file_summary, or a FileSummary the caller holds
SharedFiles ==
  {f \in InputFiles :
     /\ f.size \in {Image_MAX_SIZE_URL, MAX_SIZE_URL + 1, MAX_SIZE_UPLOAD + 1}
     /\ <<f.width, f.height>> = <<-1, -1>>
     /\ file_ext(f) \in {"mp4", "webm", "gif", "txt"}}

SharedInit ==
  /\ \E f \in SharedFiles : heap = <<f>>
  /\ task = [t \in Tasks |-> IdleTask]
  /\ post = NoPost

\* two asyncio tasks, each awaiting make_tg_compatible on heap[1]: the
\* policies that await ffmpeg between reading and updating self.file
\* (Video, Gif) and the Document policy under them
SharedStep(t) ==
  \/ Call(t)
  \/ CallGif(t)
  \/ CallAgain(t)
  \/ DocumentMakeCompatible(t)
  \/ DocumentDownloaded(t)
  \/ VideoAfterDocument(t)
  \/ VideoDownloaded(t)
  \/ VideoConverted(t)
  \/ VideoFirstFrame(t)
  \/ VideoChunk(t)
  \/ GifStart(t)
  \/ GifDownloaded(t)
  \/ GifConverted(t)

\* the event loop runs a step of either task
SharedNext == \E t \in Tasks : SharedStep(t)

SharedSpec == SharedInit /\ [][SharedNext]_vars

\* ------------------------------------------------- reading a post's properties
PostInit ==
  /\ heap = <<>>
  /\ task = [t \in Tasks |-> IdleTask]
  /\ post \in Posts

\* post.tags
ReadTags ==
  /\ post' = [post EXCEPT !.read = "tags", !.value = tags(post)]
  /\ UNCHANGED <<heap, task>>

\* post.tags_rating
ReadTagsRating ==
  /\ post' = [post EXCEPT !.read = "tags_rating", !.value = tags_rating(post)]
  /\ UNCHANGED <<heap, task>>

\* post.tags_with_rating
ReadTagsWithRating ==
  /\ post' = [post EXCEPT !.read = "tags_with_rating", !.value = tags_with_rating(post)]
  /\ UNCHANGED <<heap, task>>

PostNext == ReadTags \/ ReadTagsRating \/ ReadTagsWithRating

PostSpec == PostInit /\ [][PostNext]_vars

\* ====================================================================== claims
\* the descriptor a finished call returned
Returned(t) == heap[task[t].ret]
Finished(t) == task[t].pc = "done"
HasResult(t) == Finished(t) /\ task[t].ret # None

\* the upload ceiling of the class a result is to be sent as
CeilingOf(tag) ==
  IF tag = "PhotoSize" THEN Image_MAX_SIZE_UPLOAD ELSE MAX_SIZE_UPLOAD

\* C1: whenever make_compatible of any policy returns a descriptor, the size
\* of that descriptor is at most the upload ceiling of the returned kind.
C1_CeilingInvariant ==
  \A t \in MainTasks :
    HasResult(t) => Returned(t).size <= CeilingOf(task[t].tag)

\* C2: Document policy: a descriptor larger than the upload ceiling is
\* rejected as (None, Document), nothing is downloaded and the descriptor is
\* left as it was, Remote or Materialized, forced or not.
C2_DocumentRejectsOversize ==
  \A t \in MainTasks :
    (task[t].policy = "Document" /\ task[t].input.size > 50000000) =>
      /\ task[t].downloads = 0
      /\ task[t].pc # "doc_dl"
      /\ heap[task[t].arg] = task[t].input
      /\ Len(heap) = 1
      /\ Finished(t) => task[t].ret = None /\ task[t].tag = "Document"

C2_Witness ==
  /\ Finished(1) /\ task[1].policy = "Document"
  /\ task[1].input.size > 50000000
  /\ task[1].input.cls = "URL" /\ task[1].force

\* C3: Document policy, size at most the upload ceiling: the download is
\* invoked exactly when the descriptor is Remote and (size > URL ceiling or
\* force_download); otherwise the same descriptor is returned unchanged; the
\* result is tagged Document in both cases.
C3_DocumentDownloadIff ==
  \A t \in MainTasks :
    (task[t].policy = "Document" /\ task[t].input.size <= 50000000 /\ Finished(t)) =>
      LET remote == task[t].input.cls = "URL"
          wanted == remote /\ (task[t].input.size > 20000000 \/ task[t].force)
      IN /\ task[t].tag = "Document"
         /\ task[t].ret # None
         /\ task[t].downloads = (IF wanted THEN 1 ELSE 0)
         /\ wanted => /\ task[t].ret # task[t].arg
                      /\ Returned(t).cls = "File"
         /\ ~wanted => /\ task[t].ret = task[t].arg
                       /\ Returned(t) = task[t].input
         /\ heap[task[t].arg] = task[t].input

C3_Witness ==
  /\ Finished(1) /\ task[1].policy = "Document"
  /\ task[1].input.cls = "URL" /\ task[1].input.size <= 20000000
  /\ task[1].force /\ task[1].downloads = 1

\* C4: the Document policy applied twice in a row to a Materialized
\* descriptor of at most the upload ceiling returns the same descriptor, with
\* the same size, name and bytes, tagged Document, and downloads nothing.
C4_DocumentIdempotent ==
  \A t \in MainTasks :
    /\ (/\ Finished(t) /\ task[t].policy = "Document"
        /\ task[t].input.cls = "File"
        /\ task[t].input.size <= 50000000) =>
         /\ task[t].ret = task[t].arg
         /\ task[t].tag = "Document"
         /\ task[t].downloads = 0
         /\ Returned(t) = task[t].input
    /\ (/\ Finished(t) /\ task[t].calls >= 2
        /\ task[t].first.input.cls = "File"
        /\ task[t].first.input.size <= 50000000) =>
         /\ task[t].first.ret = task[t].first.arg
         /\ task[t].ret = task[t].first.ret
         /\ task[t].first.tag = "Document" /\ task[t].tag = "Document"
         /\ task[t].first.downloads = 0 /\ task[t].downloads = 0
         /\ Returned(t) = task[t].first.input

C4_Witness ==
  /\ Finished(1) /\ task[1].calls = 2
  /\ task[1].first.input.cls = "File"
  /\ task[1].first.input.size = 50000000
  /\ task[1].force

\* C5: the dispatcher selects exactly one policy for every extension: Video
\* for mp4, mkv, webm; Gif for gif; Image for jpg, jpeg, png, webp; Document
\* for every other extension, also the empty one.
C5_DispatchTotal ==
  \A t \in MainTasks :
    (task[t].pc # "idle" /\ task[t].via = "make_tg_compatible") =>
      LET ext == task[t].input.name.suffix IN
        /\ task[t].policy \in {"Video", "Gif", "Image", "Document"}
        /\ task[t].policy = "Video" <=> ext \in {"mp4", "mkv", "webm"}
        /\ task[t].policy = "Gif" <=> ext = "gif"
        /\ task[t].policy = "Image" <=> ext \in {"jpg", "jpeg", "png", "webp"}
        /\ task[t].policy = "Document" <=>
             ext \notin {"mp4", "mkv", "webm", "gif", "jpg", "jpeg", "png", "webp"}

C5_Witness ==
  /\ task[1].pc # "idle" /\ task[1].via = "make_tg_compatible"
  /\ task[1].input.name.suffix = "" /\ task[1].policy = "Document"

\* the descriptor has positive dimensions with max(w/h, h/w) >= 20
ExtremeRatio(f) ==
  /\ f.width > 0 /\ f.height > 0
  /\ (f.width >= 20 * f.height \/ f.height >= 20 * f.width)

\* C6: an image whose ratio is 20 or more is never returned as a PhotoSize by
\* the Image policy: what the policy returns is tagged Document.
C6_ExtremeRatioNeverPhoto ==
  \A t \in MainTasks :
    (task[t].policy = "Image" /\ ExtremeRatio(task[t].input)) =>
      /\ task[t].tag # "PhotoSize"
      /\ Finished(t) => task[t].tag = "Document"

C6_Witness ==
  /\ Finished(1) /\ task[1].policy = "Image"
  /\ task[1].input.width = 2000 /\ task[1].input.height = 10
  /\ task[1].ret # None

\* C7 as stated: every descriptor the Image policy returns for a webp input
\* has an extension other than webp, whatever the tag.
C7_WebpAlwaysConverted ==
  \A t \in MainTasks :
    (task[t].policy = "Image" /\ task[t].input.name.suffix = "webp" /\ HasResult(t)) =>
      file_ext(Returned(t)) # "webp"

\* C7 amended: every descriptor the Image policy returns tagged PhotoSize for
\* a webp input has the extension jpeg.
C7_WebpPhotoIsJpeg ==
  \A t \in MainTasks :
    (/\ task[t].policy = "Image" /\ task[t].input.name.suffix = "webp"
     /\ HasResult(t) /\ task[t].tag = "PhotoSize") =>
      file_ext(Returned(t)) = "jpeg"

C7_Witness ==
  /\ HasResult(1) /\ task[1].policy = "Image"
  /\ task[1].input.name.suffix = "webp" /\ task[1].tag = "PhotoSize"
  /\ task[1].input.cls = "URL"

\* task t is about to apply reduce_resolution to its descriptor
AppliesReduce(t) ==
  \/ task[t].pc = "img_shrink" /\ file_size_too_big(File(t), task[t].max_size)
  \/ task[t].pc = "img_final" /\ resolution_too_heigh(File(t))

\* C8: from every descriptor with width + height > 10000 and width, height
\* >= 1 the resolution-shrink step leads to width + height <= 10000, within
\* 50 applications.
C8_ShrinkReachesCeiling ==
  [][\A t \in MainTasks :
       (/\ AppliesReduce(t)
        /\ File(t).width >= 1 /\ File(t).height >= 1
        /\ File(t).width + File(t).height > 10000
        /\ task'[t] # task[t]) =>
         /\ heap'[task[t].self].width + heap'[task[t].self].height <= 10000
         /\ task'[t].iters <= 50]_vars

\* C9: in the Video policy an mp4 file is normalised by make_streamable
\* (remux only) and a webm file by to_mp4 (re-encode).
C9_ContainerPath ==
  \A t \in MainTasks :
    (task[t].policy = "Video" /\ task[t].pc = "vid_ffmpeg") =>
      /\ file_ext(File(t)) = "mp4" => task[t].conversion = "make_streamable"
      /\ file_ext(File(t)) = "webm" => task[t].conversion = "to_mp4"

\* C10: a video whose declared size exceeds the upload ceiling is never
\* returned tagged Video; the Video policy tries to extract a frame, and when
\* the extraction succeeds it returns the frame tagged PhotoSize.
C10_OversizeVideoToFrame ==
  \A t \in MainTasks :
    (task[t].policy = "Video" /\ task[t].input.size > 50000000) =>
      /\ task[t].tag # "Video"
      /\ Finished(t) =>
           /\ task[t].frame # "none"
           /\ task[t].frame = "extracted" =>
                /\ task[t].ret # None
                /\ task[t].tag = "PhotoSize"
                /\ Returned(t).data = "frame"

C10_Witness ==
  /\ Finished(1) /\ task[1].policy = "Video"
  /\ task[1].input.size > 50000000 /\ task[1].input.cls = "URL"
  /\ task[1].frame = "extracted" /\ task[1].chunks = 2

\* C11: the Animated-Image policy returns a descriptor tagged Animation or
\* absence tagged Animation; its result is never a still frame and is never
\* tagged Video or PhotoSize; for a descriptor larger than the upload
\* ceiling the result is absence.
C11_AnimationAllOrNothing ==
  \A t \in MainTasks :
    (task[t].policy = "Gif" /\ Finished(t)) =>
      /\ task[t].tag = "Animation"
      /\ task[t].ret # None => Returned(t).data # "frame"
      /\ task[t].input.size > 50000000 => task[t].ret = None

\* C12: a call of the download coordinator on a Materialized descriptor makes
\* no fetch and returns that same descriptor; a call on a Remote descriptor
\* makes exactly one bulk fetch and returns a Materialized descriptor.
C12_CoordinatorFetchCount ==
  \A t \in MainTasks :
    LET d == task[t].dl IN
      /\ d.cls = "File" =>
           /\ d.fetches = 0
           /\ d.ret = d.on
           /\ heap[d.ret].cls = "File"
      /\ d.cls = "URL" =>
           /\ d.fetches = 1
           /\ d.ret # None =>
                /\ d.ret # d.on
                /\ heap[d.ret].cls = "File"
                /\ heap[d.on].cls = "URL"
           /\ (d.ret = None) = (task[t].pc \in {"doc_dl", "img_dl_measure", "img_dl_force",
                                               "img_dl_doc", "img_dl_proc", "vid_dl", "gif_dl"})

\* one run of the Image policy called the coordinator on the Remote input
\* (a fetch) and then, at image.py:187, on the Materialized descriptor
C12_Witness ==
  /\ task[1].dl.cls = "File" /\ task[1].pc = "img_shrink"
  /\ task[1].input.cls = "URL" /\ task[1].downloads = 1
  /\ task[1].dl.ret = task[1].self /\ task[1].self # task[1].arg

\* C13: in every run of make_compatible, of any policy, for every input and
\* either value of force_download, the bulk download is invoked at most
\* once, also when unknown dimensions, force_download, the size and the
\* container all ask for the content.
C13_AtMostOneDownload ==
  \A t \in MainTasks : task[t].downloads <= 1

\* a forced Image run on a Remote webp of unknown dimensions, over the image
\* ceilings: lines 177, 181 and 192 of image.py all ask for the content
C13_Witness ==
  /\ Finished(1) /\ task[1].policy = "Image"
  /\ task[1].input.cls = "URL" /\ task[1].force
  /\ task[1].input.width = -1 /\ task[1].input.height = -1
  /\ task[1].input.name.suffix = "webp"
  /\ task[1].input.size > 10000000
  /\ task[1].downloads = 1

\* the Remote descriptor meets every limit of the Image policy
CompliantRemoteImage(f) ==
  /\ f.cls = "URL"
  /\ f.width > 0 /\ f.height > 0
  /\ f.width < 20 * f.height /\ f.height < 20 * f.width
  /\ f.width + f.height <= 10000
  /\ f.size <= 5000000
  /\ f.name.suffix # "webp"

\* C14: the Image policy without force_download on a Remote descriptor of
\* known positive dimensions, ratio below 20, width + height <= 10000, size
\* at most the image URL ceiling and an extension other than webp returns
\* that same descriptor, unchanged, tagged PhotoSize, and downloads nothing.
C14_CompliantRemoteUntouched ==
  \A t \in MainTasks :
    (task[t].policy = "Image" /\ CompliantRemoteImage(task[t].input) /\ ~task[t].force) =>
      /\ task[t].downloads = 0
      /\ task[t].dl.cls = "none"
      /\ task[t].self = task[t].arg
      /\ heap[task[t].arg] = task[t].input
      /\ task[t].pc # "raised"
      /\ Finished(t) => /\ task[t].ret = task[t].arg
                        /\ task[t].tag = "PhotoSize"

C14_Witness ==
  /\ Finished(1) /\ task[1].policy = "Image" /\ ~task[1].force
  /\ CompliantRemoteImage(task[1].input)
  /\ task[1].input.size = 5000000

\* C15: when the transcode backend gives empty output during a Video
\* decision, or during the webm conversion of an Animated-Image decision,
\* the policy returns absence: no descriptor is returned for that call.
C15_TranscodeFailureIsAbsence ==
  \A t \in MainTasks :
    (Finished(t) /\ task[t].transcode = "empty") => task[t].ret = None

\* C16: when the Video policy degrades to a still frame and the extraction
\* is impossible (Remote descriptor without chunked download, chunks
\* exhausted without a decodable frame, or a Materialized descriptor without
\* a decodable frame), make_compatible returns absence and raises nothing.
C16_FrameFailureIsAValue ==
  \A t \in MainTasks :
    (task[t].policy = "Video" /\ task[t].frame = "failed") =>
      /\ task[t].pc # "raised"
      /\ Finished(t) /\ task[t].ret = None

\* C17: when the Video policy returns a descriptor tagged Video after a
\* successful transcode, the returned descriptor itself carries the
\* transcoded bytes, the transcoded size and the extension mp4, also for a
\* Remote mkv or webm below the URL ceiling downloaded only for conversion.
C17_ReturnedVideoIsTranscoded ==
  \A t \in MainTasks :
    (/\ task[t].policy = "Video" /\ HasResult(t)
     /\ task[t].tag = "Video" /\ task[t].transcode = "ok") =>
      /\ task[t].ret = task[t].self
      /\ Returned(t).cls = "File"
      /\ Returned(t).data = "converted"
      /\ Returned(t).size \in EncodedSizes
      /\ file_ext(Returned(t)) = "mp4"

\* C18: the second component of every result of make_tg_compatible is one of
\* the four kinds Document, PhotoSize, Video, Animation, also when the
\* descriptor is absent; the kind is never absent.
C18_KindNeverAbsent ==
  \A t \in MainTasks :
    (Finished(t) /\ task[t].via = "make_tg_compatible") =>
      task[t].tag \in {"Document", "PhotoSize", "Video", "Animation"}

\* C19: for every post, tags_with_rating is the union of tags and
\* tags_rating: every tag and the full rating tag are members of the result.
C19_TagsWithRatingIsUnion ==
  post.read = "tags_with_rating" =>
    /\ post.value = tags(post) \cup tags_rating(post)
    /\ \A i \in DOMAIN post.tag_string : post.tag_string[i] \in post.value
    /\ post.rating # "" => full_name_map[post.rating] \in post.value

\* C20: for a Remote image descriptor whose width or height is unknown
\* (non-positive), the Image policy has materialized the file and measured
\* width and height from the bytes when the first ratio or resolution
\* predicate is evaluated.
C20_MeasuredBeforePredicates ==
  \A t \in MainTasks :
    (/\ task[t].policy = "Image" /\ task[t].input.cls = "URL"
     /\ (task[t].input.width <= 0 \/ task[t].input.height <= 0)
     /\ task[t].pc = "img_ratio") =>
      /\ File(t).cls = "File"
      /\ <<File(t).width, File(t).height>> = File(t).real
      /\ File(t).width > 0 /\ File(t).height > 0

\* C21: in every run of the Image policy, for every input descriptor, Remote
\* or Materialized, of any width and height, ratio_hw and ratio_wh are never
\* evaluated while width or height is zero: make_compatible never fails
\* with a division by zero.
C21_NoRatioOnZeroDimension ==
  \A t \in MainTasks :
    task[t].policy = "Image" =>
      /\ task[t].pc = "img_ratio" => File(t).width # 0 /\ File(t).height # 0
      /\ task[t].exc # "ZeroDivisionError"

\* the finished Image policy went through Image.open (image.py:197)
TookProcessingBranch(t) ==
  task[t].policy = "Image" /\ task[t].tag = "PhotoSize" /\ task[t].image # NoDims

\* C22: a descriptor the Image policy returns tagged PhotoSize after the
\* processing branch is neither oversized (size above the image upload
\* ceiling) nor of too high a resolution (width + height > 10000), by the
\* size and dimensions measured after the last re-encode.
C22_ProcessedImageWithinLimits ==
  \A t \in MainTasks :
    (HasResult(t) /\ TookProcessingBranch(t)) =>
      /\ Returned(t).size <= 10000000
      /\ Returned(t).width + Returned(t).height <= 10000

\* task t is in the size-driven shrink loop, the size is still above the
\* ceiling and the next resize would have a dimension below 1
CannotShrinkFurther(t) ==
  /\ task[t].pc = "img_shrink"
  /\ file_size_too_big(File(t), task[t].max_size)
  /\ ResizeRaises(ResizeTo(File(t), task[t].shrunk))

\* C23: when the encoded size is still above the ceiling and the dimensions
\* can shrink no further, the shrink loop of the Image policy (extreme-ratio
\* branch and normal branch) ends and make_compatible returns absence; it
\* does not raise.
C23_ShrinkGivesUpWithAbsence ==
  [][\A t \in MainTasks :
       (CannotShrinkFurther(t) /\ task'[t] # task[t]) =>
         /\ task'[t].pc = "done"
         /\ task'[t].ret = None]_vars

\* C24: for a Remote video with a chunked download, the Video policy tries
\* the extraction on the cumulative buffer after each chunk, in order; at the
\* first chunk where it succeeds the frame is returned and no further chunk
\* is requested; when the stream ends without a frame the result is absence.
C24_ChunkedExtractionStopsEarly ==
  [][\A t \in MainTasks :
       /\ task'[t].chunks # task[t].chunks =>
            /\ task[t].pc = "vid_chunk" /\ task[t].frame = "none"
            /\ task'[t].chunks = task[t].chunks + 1
       /\ (task[t].pc = "vid_chunk" /\ task'[t] # task[t]) =>
            \/ /\ task'[t].chunks = task[t].chunks + 1
               /\ task'[t].pc = "vid_chunk" /\ task'[t].frame = "none"
               /\ heap' = heap
            \/ /\ task'[t].chunks = task[t].chunks + 1
               /\ task'[t].pc = "done" /\ task'[t].frame = "extracted"
               /\ task'[t].ret = Len(heap) + 1
               /\ Len(heap') = Len(heap) + 1
               /\ heap'[task'[t].ret].data = "frame"
            \/ /\ task'[t].chunks = task[t].chunks
               /\ task'[t].pc = "done" /\ task'[t].frame = "failed"
               /\ task'[t].ret = None
               /\ heap' = heap]_vars

\* the first chunk gave no frame, the second did, and the call has returned
C24_Witness ==
  /\ Finished(1) /\ task[1].policy = "Video"
  /\ task[1].input.cls = "URL" /\ task[1].input.hasIter
  /\ task[1].chunks = 2 /\ task[1].frame = "extracted"
  /\ task[1].ret = 2 /\ heap[2].data = "frame"
  /\ task[1].input.name.suffix = "webm"

\* C25: the still frame the Video policy degrades to reuses the width and
\* height of the video, its size is the byte length of the extracted JPEG,
\* and its extension is an Image extension, so that the kind computed from
\* its extension is Image/PhotoSize.
C25_FrameIsImageKind ==
  \A t \in MainTasks :
    (task[t].policy = "Video" /\ HasResult(t) /\ task[t].frame = "extracted") =>
      /\ Returned(t).width = task[t].input.width
      /\ Returned(t).height = task[t].input.height
      /\ Returned(t).size \in EncodedSizes
      /\ file_ext(Returned(t)) \in IMAGE_TYPES
      /\ is_image(Returned(t))
      /\ telegram_type(Returned(t)) = "PhotoSize"

\* C26: two make_tg_compatible calls that run as separate tasks, also on the
\* same descriptor object, do not interfere: a step of one task changes
\* neither the descriptor the other task works on nor the descriptor the
\* other task has returned, so each call reads and returns what it would
\* alone.
C26_NoInterference ==
  [][\A t, u \in Tasks :
       (t # u /\ task'[u] # task[u] /\ task'[t] = task[t]) =>
         /\ task[t].self # None => heap'[task[t].self] = heap[task[t].self]
         /\ task[t].ret # None => heap'[task[t].ret] = heap[task[t].ret]]_vars

\* C27: make_compatible of any policy given a Remote descriptor leaves every
\* field of the caller's descriptor object unchanged; each in-place update
\* of size, dimensions, file name or bytes is applied to the newly
\* materialized descriptor.
C27_RemoteInputUntouched ==
  \A t \in MainTasks :
    (task[t].arg # None /\ task[t].input.cls = "URL") =>
      /\ heap[task[t].arg] = task[t].input
      /\ \A i \in DOMAIN heap :
           heap[i].data \in {"saved", "converted"} =>
             /\ i # task[t].arg
             /\ heap[i].cls = "File"

\* a Remote webp was downloaded and re-encoded: the update is on object 2
C27_Witness ==
  /\ HasResult(1) /\ task[1].policy = "Image"
  /\ task[1].input.cls = "URL" /\ task[1].input.name.suffix = "webp"
  /\ task[1].ret = 2 /\ heap[2].data = "saved"
  /\ heap[2].name.suffix = "jpeg" /\ heap[1].name.suffix = "webp"

\* the image reduce_resolution is about to resize: the loop variable of
\* decrease_file_size, or the image of make_compatible in its last step
ImageToResize(t) ==
  IF task[t].pc = "img_shrink" THEN task[t].shrunk ELSE task[t].image

\* C28: a step triggered by the resolution uses the factor 10000 / (w + h),
\* a normal step 0.9; the new dimensions are floor(w * factor) and
\* floor(h * factor).  So for w, h >= 1 with w + h > 10000 one resolution
\* step gives w' + h' <= 10000, and every 0.9 step gives w' < w and h' < h.
C28_ShrinkStepArithmetic ==
  [][\A t \in MainTasks :
       (/\ AppliesReduce(t)
        /\ ImageToResize(t)[1] >= 1 /\ ImageToResize(t)[2] >= 1
        /\ task'[t] # task[t]) =>
         LET w == ImageToResize(t)[1]
             h == ImageToResize(t)[2]
             new == heap'[task[t].self]
         IN IF File(t).width + File(t).height > 10000
              THEN /\ new.width = (w * 10000) \div (w + h)
                   /\ new.height = (h * 10000) \div (w + h)
                   /\ w + h > 10000 => new.width + new.height <= 10000
              ELSE /\ new.width = (w * 9) \div 10
                   /\ new.height = (h * 9) \div 10
                   /\ new.width < w /\ new.height < h]_vars

\* both ratios of the dimensions recorded on f are below 20
RatioBelowLimit(f) ==
  /\ f.width # 0 /\ f.height # 0
  /\ ~QuotientAtLeast(f.width, f.height, 20)
  /\ ~QuotientAtLeast(f.height, f.width, 20)

\* C29: whenever the Image policy returns a descriptor tagged PhotoSize, the
\* width and height recorded on it satisfy max(w/h, h/w) < 20, also when
\* truncating shrink steps changed the dimensions after the ratio was
\* checked on the original ones.
C29_PhotoRatioBelowLimit ==
  \A t \in MainTasks :
    (task[t].policy = "Image" /\ HasResult(t) /\ task[t].tag = "PhotoSize") =>
      RatioBelowLimit(Returned(t))


\* C30: with force_download true, every descriptor a policy (Document, Image,
\* Video, Gif) returns is Materialized; a Remote descriptor is never returned.
C30_ForcedResultIsMaterialized ==
  \A t \in MainTasks :
    (HasResult(t) /\ task[t].force) => Returned(t).cls = "File"

\* a forced Image run on a Remote image that was compliant as it stood, and
\* whose result is the Materialized descriptor of the download
C30_Witness ==
  /\ Finished(1) /\ task[1].policy = "Image" /\ task[1].force
  /\ CompliantRemoteImage(task[1].input)
  /\ HasResult(1) /\ task[1].tag = "PhotoSize"
  /\ Returned(1).cls = "File" /\ task[1].ret # task[1].arg

====
